---- MODULE Spec2Model ----
(***************************************************************************)
(* Model of MeetingVirtualBackground.py: the process-wide session state    *)
(* (selected_bg_index, apply_blur, background_images), the three control   *)
(* handlers, load_backgrounds, and the gen_frames / apply_effects frame    *)
(* pipeline with its unsynchronised reads of the session state.            *)
(*                                                                         *)
(* Images are one-row strips of BGR pixels <<b, g, r>>; None (what         *)
(* cv2.imread returns for an undecodable file) is the empty strip.         *)
(*                                                                         *)
(* Spec     the application: handlers and one stream, interleaved          *)
(* SpecCtl  the control handlers alone, each request and response observed *)
(* SpecLoad load_backgrounds on every state of the backgrounds folder      *)
(* SpecPure one stream under every session state, held fixed               *)
(***************************************************************************)
EXTENDS Integers, Sequences, FiniteSets, TLC

\* ---------------------------------------------------------------- constants
NUM_BACKGROUNDS == 6
BLUR_KERNEL_SIZE == 55
\* SEGMENTATION_THRESHOLD = 0.1, mask values are held in hundredths
SEGMENTATION_THRESHOLD == 10
\* np.ones((7, 7)) structuring element
ERODE_KERNEL_SIZE == 7
\* np.zeros((480, 640, 3)): the placeholder is 480 rows high
PLACEHOLDER_H == 480
\* the strip is the row of the label's anchor (250, 250)
PLACEHOLDER_ROW == 250

\* ------------------------------------------------------------------- bounds
\* longest <bg_index> path segment, in characters
MaxArgLen == 2
\* largest <int:state> given to toggle_blur
MaxToggle == 2
\* width of a camera frame strip
CamW == 5
\* number of distinct frames the camera can deliver
NumCamFrames == 2
\* width of a placeholder strip (640 columns scaled down)
PlaceholderW == 7
\* width of a decoded background file strip
PngW == 3

\* ------------------------------------------------------------------ helpers
NoneImg == <<>>

Slots == 1..NUM_BACKGROUNDS

Min2(a, b) == IF a <= b THEN a ELSE b

\* ------------------------------------------------- load_backgrounds (31-80)
FileStatus == {"absent", "png", "corrupt"}

\* pixels of the decodable file i.png
PngPixels(i) == [x \in 1..PngW |-> <<(40 * i + x) % 256, (255 - 30 * i) % 256, (17 * x + i) % 256>>]

\* the columns of the strip that the strokes of the label "BG i" cross
LabelColumns(bg_number) == {((bg_number - 1) % PlaceholderW) + 1}

create_placeholder_background(bg_number) ==
    LET y == PLACEHOLDER_ROW
        r == (255 * y) \div PLACEHOLDER_H
        g == (255 * (PLACEHOLDER_H - y)) \div PLACEHOLDER_H
        b == 128
    IN  [x \in 1..PlaceholderW |->
            IF x \in LabelColumns(bg_number) THEN <<255, 255, 255>> ELSE <<b, g, r>>]

\* cv2.imread: the decoded image, or None when the file cannot be decoded
imread(status, i) == IF status = "png" THEN PngPixels(i) ELSE NoneImg

\* os.path.exists(img_path)
PathExists(status) == status # "absent"

\* one iteration of the loop at lines 45-54: the image appended for slot i
LoadSlot(status, i) ==
    IF PathExists(status)
    THEN imread(status, i)
    ELSE create_placeholder_background(i)

\* ------------------------------------------------------------ image algebra
Width(img) == Len(img)

\* cv2.flip(image, 1)
Flip(img) == [x \in 1..Len(img) |-> img[Len(img) + 1 - x]]

\* cv2.cvtColor BGR2RGB and RGB2BGR: the channel order is reversed
CvtColor(img) == [x \in 1..Len(img) |-> <<img[x][3], img[x][2], img[x][1]>>]

\* cv2.erode(mask, ones(7,7)): minimum over the window, the border not counting
Erode(mask) ==
    LET h == (ERODE_KERNEL_SIZE - 1) \div 2
        win(x) == {j \in 1..Len(mask) : j >= x - h /\ j <= x + h}
        least(S) == CHOOSE v \in S : \A w \in S : v <= w
    IN  [x \in 1..Len(mask) |-> least({mask[j] : j \in win(x)})]

\* np.stack((mask,) * 3, axis=-1) > SEGMENTATION_THRESHOLD
Threshold(mask) ==
    [x \in 1..Len(mask) |-> LET c == mask[x] > SEGMENTATION_THRESHOLD IN <<c, c, c>>]

MaskCondition(mask) == Threshold(Erode(mask))

\* cv2.resize(img, (w, h)): linear interpolation between pixel centres
ResizeSample(img, w, x, ch) ==
    LET n   == Len(img)
        den == 2 * w
        num == (2 * (x - 1) + 1) * n - w
        sx0 == num \div den
        lo  == IF sx0 < 0 THEN 0 ELSE IF sx0 >= n - 1 THEN n - 1 ELSE sx0
        f   == IF sx0 < 0 \/ sx0 >= n - 1 THEN 0 ELSE num - sx0 * den
        hi  == Min2(lo + 1, n - 1)
    IN  (img[lo + 1][ch] * (den - f) + img[hi + 1][ch] * f + w) \div den

Resize(img, w) ==
    [x \in 1..w |-> <<ResizeSample(img, w, x, 1), ResizeSample(img, w, x, 2), ResizeSample(img, w, x, 3)>>]

\* BORDER_REFLECT_101 index of column j in a strip of width n
Reflect101(j, n) ==
    IF n = 1 THEN 1
    ELSE LET p == 2 * (n - 1)
             m == (j - 1) % p
         IN  IF m < n THEN m + 1 ELSE p - m + 1

\* how many of the kernel's taps around column x land on column s
Taps(x, s, n) ==
    LET h == (BLUR_KERNEL_SIZE - 1) \div 2
    IN  Cardinality({d \in (0 - h)..h : Reflect101(x + d, n) = s})

\* the taps for a strip as wide as a camera frame, computed once
FrameTaps == [x \in 1..CamW |-> [s \in 1..CamW |-> Taps(x, s, CamW)]]

TapCount(x, s, n) == IF n = CamW THEN FrameTaps[x][s] ELSE Taps(x, s, n)

RECURSIVE WeightedSum(_, _, _, _)
WeightedSum(img, x, ch, s) ==
    IF s = 0 THEN 0
    ELSE TapCount(x, s, Len(img)) * img[s][ch] + WeightedSum(img, x, ch, s - 1)

\* cv2.GaussianBlur(img, BLUR_KERNEL_SIZE, 0), the kernel's weights taken equal
GaussianBlur(img) ==
    LET k == BLUR_KERNEL_SIZE
        px(x, ch) == (WeightedSum(img, x, ch, Len(img)) + k \div 2) \div k
    IN  [x \in 1..Len(img) |-> <<px(x, 1), px(x, 2), px(x, 3)>>]

\* np.where(condition, a, b), elementwise over pixels and channels
Where(condition, a, b) ==
    [x \in 1..Len(a) |->
        [ch \in 1..3 |-> IF condition[x][ch] THEN a[x][ch] ELSE b[x][ch]]]


\* ------------------------------------------------------------ input domains
\* characters a <bg_index> path segment is built from
Alphabet == {"-", " ", "0", "1", "2", "5", "6", "x"}

\* Flask's default string converter: any non-empty text
Args == UNION {[1..n -> Alphabet] : n \in 1..MaxArgLen}

\* Flask's <int:state> converter: a non-negative integer
ToggleStates == 0..MaxToggle

DigitChars == <<"0", "1", "2", "3", "4", "5", "6", "7", "8", "9">>

IsDigit(c) == \E d \in 1..10 : DigitChars[d] = c

DigitValue(c) == (CHOOSE d \in 1..10 : DigitChars[d] = c) - 1

\* str.strip() as int() applies it
RECURSIVE LStrip(_)
LStrip(s) == IF s # <<>> /\ Head(s) = " " THEN LStrip(Tail(s)) ELSE s

RECURSIVE RStrip(_)
RStrip(s) ==
    IF s # <<>> /\ s[Len(s)] = " " THEN RStrip(SubSeq(s, 1, Len(s) - 1)) ELSE s

Strip(s) == RStrip(LStrip(s))

\* value of a digit string with its underscores skipped
RECURSIVE DigitsValue(_, _)
DigitsValue(t, acc) ==
    IF t = <<>> THEN acc
    ELSE IF Head(t) = "_" THEN DigitsValue(Tail(t), acc)
    ELSE DigitsValue(Tail(t), 10 * acc + DigitValue(Head(t)))

\* the digits part int() accepts: digits, single underscores only between digits
WellFormedDigits(t) ==
    /\ t # <<>>
    /\ IsDigit(t[1])
    /\ IsDigit(t[Len(t)])
    /\ \A k \in 1..Len(t) : IsDigit(t[k]) \/ t[k] = "_"
    /\ \A k \in 1..(Len(t) - 1) : ~(t[k] = "_" /\ t[k + 1] = "_")

\* int(bg_index): ok = FALSE stands for ValueError
ParseInt(s) ==
    LET t    == Strip(s)
        neg  == t # <<>> /\ Head(t) = "-"
        sign == t # <<>> /\ Head(t) \in {"-", "+"}
        body == IF sign THEN Tail(t) ELSE t
    IN  IF WellFormedDigits(body)
        THEN [ok |-> TRUE, val |-> IF neg THEN 0 - DigitsValue(body, 0) ELSE DigitsValue(body, 0)]
        ELSE [ok |-> FALSE, val |-> 0]

\* frames the camera delivers
CamFrame(k) ==
    [x \in 1..CamW |-> <<(40 * k + 7 * x) % 256, (90 * k + 13 * x) % 256, (20 * k + 3 * x) % 256>>]

\* segmentation_mask values, in hundredths
MaskLevels == {0, 10, 100}

Masks == [1..CamW -> MaskLevels]

\* ------------------------------------------------------------------- state
VARIABLES
    selected_bg_index,  \* global, line 23
    apply_blur,         \* global, line 24
    background_images,  \* global, line 25
    fs,                 \* the backgrounds folder: status of each i.png
    load_i,             \* loop variable of load_backgrounds
    index_pc,           \* position of an index() request between its two stores
    pc,                 \* position of the gen_frames generator
    cap,                \* the cv2.VideoCapture handle of the stream
    captured,           \* the frame cap.read() returned
    image,              \* local image of gen_frames
    condition,          \* local condition of apply_effects
    bg_slot,            \* element of background_images subscripted at line 205
    bg_image,           \* local bg_image of apply_effects
    output_image,       \* local output_image
    ret,                \* local ret of gen_frames
    frame,              \* local frame of gen_frames
    chunk,              \* the multipart chunk last yielded
    idxReads,           \* history: values of selected_bg_index read by this call
    ctl,                \* history: control calls completed since startup
    frameCtl,           \* history: ctl throughout this frame's compositing
    req,                \* history: the last control request
    resp                \* history: the response to it

session == <<selected_bg_index, apply_blur>>

store == <<background_images, fs, load_i>>

locals == <<captured, image, condition, bg_slot, bg_image, output_image, ret, frame, chunk>>

stream == <<pc, cap, locals, idxReads, frameCtl>>

client == <<req, resp>>

vars == <<session, store, index_pc, stream, ctl, client>>

NoReq == [op |-> "none"]

NoResp == [status |-> "none", code |-> 0]

NoCap == [opened |-> FALSE, released |-> 0]

NoChunk == [head |-> "", body |-> <<>>]

Terminal == {"done", "raised", "closed"}

Loaded == load_i > NUM_BACKGROUNDS

\* the state at module import, before load_backgrounds() at line 242
Boot(folders, indexes, blurs, history) ==
    /\ fs \in folders
    /\ selected_bg_index \in indexes
    /\ apply_blur \in blurs
    /\ ctl = history
    /\ background_images = <<>>
    /\ load_i = 1
    /\ index_pc = "idle"
    /\ pc = "idle"
    /\ cap = NoCap
    /\ captured = NoneImg
    /\ image = NoneImg
    /\ condition = <<>>
    /\ bg_slot = 0
    /\ bg_image = NoneImg
    /\ output_image = NoneImg
    /\ ret = FALSE
    /\ frame = <<>>
    /\ chunk = NoChunk
    /\ idxReads = {}
    /\ frameCtl = "other"
    /\ req = NoReq
    /\ resp = NoResp

\* ------------------------------------------------------- load_backgrounds
LoadStep ==
    /\ ~Loaded
    /\ background_images' = Append(background_images, LoadSlot(fs[load_i], load_i))
    /\ load_i' = load_i + 1
    /\ UNCHANGED <<fs, session, index_pc, stream, ctl, client>>


\* ------------------------------------------------------ index() (83-91)
\* line 89: selected_bg_index = -1
IndexResetBackground ==
    /\ Loaded
    /\ index_pc = "idle"
    /\ selected_bg_index' = -1
    /\ index_pc' = "reset_blur"
    /\ UNCHANGED <<apply_blur, store, stream>>

\* lines 90-91: apply_blur = False, then the page is rendered
IndexResetBlur ==
    /\ index_pc = "reset_blur"
    /\ apply_blur' = FALSE
    /\ index_pc' = "idle"
    /\ UNCHANGED <<selected_bg_index, store, stream>>

\* ------------------------------------------- set_background() (94-117)
\* the range check with its upper bound included
IndexInRangeInclusive(bg_index, n) == bg_index = -1 \/ (0 <= bg_index /\ bg_index <= n)

\* the range check without its lower bound
IndexInRangeNoLower(bg_index, n) == bg_index < n

\* the range check with its lower bound excluded
IndexInRangeExclusive(bg_index, n) == bg_index = -1 \/ (0 < bg_index /\ bg_index < n)

\* line 113: bg_index == -1 or (0 <= bg_index < len(background_images))
IndexInRange(bg_index, n) == bg_index = -1 \/ (0 <= bg_index /\ bg_index < n)

Accepted(bg_index) ==
    LET parsed == ParseInt(bg_index)
    IN  parsed.ok /\ IndexInRange(parsed.val, Len(background_images))

\* the value returned to the client
SetBackgroundResponse(bg_index) ==
    LET parsed == ParseInt(bg_index)
    IN  IF ~parsed.ok
        THEN [status |-> "error", code |-> 400, message |-> "Invalid index format"]
        ELSE IF IndexInRange(parsed.val, Len(background_images))
        THEN [status |-> "success", code |-> 200, selected_index |-> parsed.val]
        ELSE [status |-> "error", code |-> 400, message |-> "Invalid index"]

set_background(bg_index) ==
    /\ Loaded
    /\ LET parsed == ParseInt(bg_index)
       IN  selected_bg_index' =
              IF parsed.ok /\ IndexInRange(parsed.val, Len(background_images))
              THEN parsed.val
              ELSE selected_bg_index
    /\ UNCHANGED <<apply_blur, store, index_pc, stream>>

\* ---------------------------------------------- toggle_blur() (120-133)
ToggleBlurResponse(state) == [status |-> "success", code |-> 200, blur_enabled |-> state # 0]

toggle_blur(state) ==
    /\ Loaded
    /\ apply_blur' = (state # 0)
    /\ UNCHANGED <<selected_bg_index, store, index_pc, stream>>

\* --------------------------------------------------- gen_frames() (136-178)
ClearLocals ==
    /\ captured' = NoneImg
    /\ image' = NoneImg
    /\ condition' = <<>>
    /\ bg_slot' = 0
    /\ bg_image' = NoneImg
    /\ output_image' = NoneImg
    /\ ret' = FALSE
    /\ frame' = <<>>
    /\ chunk' = NoChunk
    /\ idxReads' = {}
    /\ frameCtl' = "other"

\* an exception leaves gen_frames: the with block exits, line 178 is not reached
Raise ==
    /\ pc' = "raised"
    /\ ClearLocals
    /\ UNCHANGED cap

\* video_feed (230-238) and line 143: cap = cv2.VideoCapture(0)
StartStream ==
    /\ Loaded
    /\ pc \in {"idle"} \cup Terminal
    /\ \E opened \in BOOLEAN : cap' = [opened |-> opened, released |-> 0]
    /\ pc' = "loop"
    /\ ClearLocals
    /\ UNCHANGED <<session, store, index_pc, ctl, client>>

\* lines 147-154: while cap.isOpened(), cap.read(), flip and BGR2RGB
Capture ==
    /\ pc = "loop"
    /\ \/ /\ ~cap.opened
          /\ pc' = "release"
          /\ UNCHANGED <<captured, image>>
       \/ /\ cap.opened
          /\ pc' = "release"
          /\ UNCHANGED <<captured, image>>
       \/ /\ cap.opened
          /\ \E k \in 1..NumCamFrames :
                /\ captured' = CamFrame(k)
                /\ image' = CvtColor(Flip(CamFrame(k)))
          /\ pc' = "segment"
    /\ UNCHANGED <<session, store, index_pc, cap, condition, bg_slot, bg_image,
                   output_image, ret, frame, chunk, idxReads, frameCtl, ctl, client>>

\* lines 157-160 and 193-201: segmentation, RGB2BGR, erosion and threshold
Segment ==
    /\ pc = "segment"
    /\ \/ Raise
       \/ /\ \E mask \in Masks : condition' = MaskCondition(mask)
          /\ image' = CvtColor(image)
          /\ pc' = "ae_chk1"
          /\ idxReads' = {}
          /\ frameCtl' = ctl
          /\ UNCHANGED <<cap, captured, bg_slot, bg_image, output_image, ret, frame, chunk>>
    /\ UNCHANGED <<session, store, index_pc, ctl, client>>

\* ctl as this frame's compositing has seen it so far
Seen == IF frameCtl = ctl THEN frameCtl ELSE "other"

\* line 204, left operand: selected_bg_index >= 0
AE_CheckLower ==
    /\ pc = "ae_chk1"
    /\ pc' = IF selected_bg_index >= 0 THEN "ae_chk2" ELSE "ae_else"
    /\ idxReads' = idxReads \cup {selected_bg_index}
    /\ frameCtl' = Seen
    /\ UNCHANGED <<session, store, index_pc, cap, locals, ctl, client>>

\* line 204, right operand: selected_bg_index < len(background_images)
AE_CheckUpper ==
    /\ pc = "ae_chk2"
    /\ pc' = IF selected_bg_index < Len(background_images) THEN "ae_bg" ELSE "ae_else"
    /\ idxReads' = idxReads \cup {selected_bg_index}
    /\ frameCtl' = Seen
    /\ UNCHANGED <<session, store, index_pc, cap, locals, ctl, client>>

\* list subscription taking Python's index for the 1-based position
PyIndexZeroBased(k, n) ==
    IF 0 <= k /\ k < n THEN k
    ELSE IF 0 - n <= k /\ k < 0 THEN n + k
    ELSE 0

\* list subscription: the 1-based position k selects, 0 for IndexError
PyIndex(k, n) ==
    IF 0 <= k /\ k < n THEN k + 1
    ELSE IF 0 - n <= k /\ k < 0 THEN n + k + 1
    ELSE 0

\* lines 205-208: background_images[selected_bg_index].copy(), cv2.resize
AE_LoadBackground ==
    /\ pc = "ae_bg"
    /\ LET slot == PyIndex(selected_bg_index, Len(background_images))
       IN  IF slot = 0 \/ background_images[slot] = NoneImg
           THEN Raise
           ELSE /\ bg_slot' = slot
                /\ bg_image' = Resize(background_images[slot], Width(image))
                /\ idxReads' = idxReads \cup {selected_bg_index}
                /\ frameCtl' = Seen
                /\ pc' = "ae_blur"
                /\ UNCHANGED <<cap, captured, image, condition, output_image, ret, frame, chunk>>
    /\ UNCHANGED <<session, store, index_pc, ctl, client>>

\* lines 211-212: if apply_blur: bg_image = cv2.GaussianBlur(bg_image, ...)
BlurIf(blur, img) == IF blur THEN GaussianBlur(img) ELSE img

\* np.where with its two sources exchanged
CompositeSwapped(cond, img, bg) == Where(cond, bg, img)

\* line 215: np.where(condition, image, bg_image)
Composite(cond, img, bg) == Where(cond, img, bg)

AE_CompositeBackground ==
    /\ pc = "ae_blur"
    /\ bg_image' = BlurIf(apply_blur, bg_image)
    /\ output_image' = Composite(condition, image, bg_image')
    /\ frameCtl' = Seen
    /\ idxReads' = {}
    /\ pc' = "encode"
    /\ UNCHANGED <<session, store, index_pc, cap, captured, image, condition, bg_slot,
                   ret, frame, chunk, ctl, client>>

\* the else branch blurring whatever the flag says
PolicyNoBackgroundBlurred(img, cond, blur) == Where(cond, img, GaussianBlur(img))

\* lines 219-225
PolicyNoBackground(img, cond, blur) ==
    IF blur THEN Where(cond, img, GaussianBlur(img)) ELSE img

AE_NoBackground ==
    /\ pc = "ae_else"
    /\ output_image' = PolicyNoBackground(image, condition, apply_blur)
    /\ frameCtl' = Seen
    /\ idxReads' = {}
    /\ pc' = "encode"
    /\ UNCHANGED <<session, store, index_pc, cap, captured, image, condition, bg_slot,
                   bg_image, ret, frame, chunk, ctl, client>>

\* cv2.imencode('.jpg', img): the buffer of a successful encoding
imencode(img) == [fmt |-> "jpg", of |-> img]

\* buffer.tobytes() of the empty buffer a failed encoding leaves
EmptyBytes == [fmt |-> "", of |-> NoneImg]

\* lines 171-172: ret, buffer = cv2.imencode(...); frame = buffer.tobytes()
Encode ==
    /\ pc = "encode"
    /\ \/ Raise
       \/ /\ \E ok \in BOOLEAN :
                /\ ret' = ok
                /\ frame' = IF ok THEN imencode(output_image) ELSE EmptyBytes
          /\ pc' = "yield"
          /\ UNCHANGED <<cap, captured, image, condition, bg_slot, bg_image, output_image,
                         chunk, idxReads, frameCtl>>
    /\ UNCHANGED <<session, store, index_pc, ctl, client>>

\* the multipart chunk of lines 175-176
Multipart(bytes) == [head |-> "--frame\r\nContent-Type: image/jpeg\r\n\r\n", body |-> bytes]

\* line 175: yield
Yield ==
    /\ pc = "yield"
    /\ chunk' = Multipart(frame)
    /\ pc' = "suspended"
    /\ UNCHANGED <<session, store, index_pc, cap, captured, image, condition, bg_slot,
                   bg_image, output_image, ret, frame, idxReads, frameCtl, ctl, client>>

\* the consumer asks for the next chunk: the loop goes round
Resume ==
    /\ pc = "suspended"
    /\ pc' = "loop"
    /\ ClearLocals
    /\ UNCHANGED <<session, store, index_pc, cap, ctl, client>>

\* the consumer closes the generator: GeneratorExit is raised at the yield
Close ==
    /\ pc = "suspended"
    /\ pc' = "closed"
    /\ ClearLocals
    /\ UNCHANGED <<session, store, index_pc, cap, ctl, client>>

\* line 178: cap.release()
Release ==
    /\ pc = "release"
    /\ cap' = [cap EXCEPT !.released = @ + 1]
    /\ pc' = "done"
    /\ ClearLocals
    /\ UNCHANGED <<session, store, index_pc, ctl, client>>

StreamNext ==
    \/ StartStream
    \/ Capture
    \/ Segment
    \/ AE_CheckLower
    \/ AE_CheckUpper
    \/ AE_LoadBackground
    \/ AE_CompositeBackground
    \/ AE_NoBackground
    \/ Encode
    \/ Yield
    \/ Resume
    \/ Close
    \/ Release

\* ------------------------------------------------- the running application
\* control calls completed so far: none, exactly one set_background(2), other
AfterSetBackground(bg_index) ==
    IF ctl = "none" /\ Accepted(bg_index) /\ ParseInt(bg_index).val = 2
    THEN "bg2"
    ELSE "other"

ServeIndexResetBackground ==
    IndexResetBackground /\ ctl' = "other" /\ UNCHANGED client

ServeIndexResetBlur ==
    IndexResetBlur /\ UNCHANGED <<ctl, client>>

\* the path segments sent while a stream is being watched
ServeArgs == {s \in Args : Len(s) = 1} \cup {<<"-", "1">>}

ServeSetBackground ==
    \E bg_index \in ServeArgs :
        set_background(bg_index) /\ ctl' = AfterSetBackground(bg_index) /\ UNCHANGED client

ServeToggleBlur ==
    \E state \in ToggleStates :
        toggle_blur(state) /\ ctl' = "other" /\ UNCHANGED client

\* folders the application is started on
ServeFolders ==
    { [i \in Slots |-> "absent"],
      [i \in Slots |-> IF i = 3 THEN "corrupt" ELSE "png"] }

Init == Boot(ServeFolders, {-1}, {FALSE}, "none")

Next ==
    \/ LoadStep
    \/ ServeIndexResetBackground
    \/ ServeIndexResetBlur
    \/ ServeSetBackground
    \/ ServeToggleBlur
    \/ StreamNext

Spec == Init /\ [][Next]_vars


\* --------------------------------------------- the control surface, observed
CallIndexResetBackground ==
    /\ IndexResetBackground
    /\ req' = [op |-> "index"]
    /\ resp' = NoResp
    /\ UNCHANGED ctl

CallIndexResetBlur ==
    /\ IndexResetBlur
    /\ req' = [op |-> "index"]
    /\ resp' = [status |-> "success", code |-> 200]
    /\ UNCHANGED ctl

CallSetBackground ==
    \E bg_index \in Args :
        /\ set_background(bg_index)
        /\ req' = [op |-> "set_background"] @@ ParseInt(bg_index)
        /\ resp' = SetBackgroundResponse(bg_index)
        /\ UNCHANGED ctl

CallToggleBlur ==
    \E state \in ToggleStates :
        /\ toggle_blur(state)
        /\ req' = [op |-> "toggle_blur", state |-> state]
        /\ resp' = ToggleBlurResponse(state)
        /\ UNCHANGED ctl

CtlFolders == { [i \in Slots |-> "absent"] }

InitCtl == Boot(CtlFolders, {-1}, {FALSE}, "none")

NextCtl ==
    \/ LoadStep
    \/ CallIndexResetBackground
    \/ CallIndexResetBlur
    \/ CallSetBackground
    \/ CallToggleBlur

SpecCtl == InitCtl /\ [][NextCtl]_vars

\* ------------------------------------------ load_backgrounds on any folder
InitLoad == Boot([Slots -> FileStatus], {-1}, {FALSE}, "none")

NextLoad == LoadStep

SpecLoad == InitLoad /\ [][NextLoad]_vars

\* ------------------------- the pipeline under every fixed session state
InitPure == Boot(ServeFolders, (0 - 1)..(NUM_BACKGROUNDS - 1), BOOLEAN, "other")

NextPure ==
    \/ LoadStep
    \/ StreamNext

SpecPure == InitPure /\ [][NextPure]_vars

\* ------------------------------------------------------------------ claims
Mixed(cond) == (\E x \in 1..Len(cond) : cond[x][1]) /\ (\E x \in 1..Len(cond) : ~cond[x][1])

\* C1: in every reachable state, whatever index(), set_background(x) and
\* toggle_blur(s) calls were interleaved with the stream, selected_bg_index is
\* -1 or an index into background_images.
C1_IndexValid ==
    \/ selected_bg_index = -1
    \/ (selected_bg_index >= 0 /\ selected_bg_index < Len(background_images))

C1_Witness ==
    /\ selected_bg_index = NUM_BACKGROUNDS - 1
    /\ index_pc = "reset_blur"
    /\ pc = "suspended"

\* C2: on every exit of the stream the camera handle has been released
\* exactly once.
C2_ReleasedOnce == pc \in Terminal => cap.released = 1

\* C3: the background a frame is composited with is background_images[i] for
\* a value i >= 0 of selected_bg_index that this call read: the snapshot the
\* call took.
C3_BackgroundOfSnapshot == pc = "ae_blur" => (bg_slot - 1) \in idxReads

\* a request whose input is no integer, or one outside [-1, len(background_images))
Rejectable(r) == ~r.ok \/ r.val < -1 \/ r.val >= Len(background_images)

\* C4: a set_background call whose input does not parse as an integer, or
\* parses to an integer outside [-1, len(background_images)), answers with an
\* error of status 400 and leaves selected_bg_index and apply_blur as they were.
C4_RejectKeepsState ==
    [][ (req'.op = "set_background" /\ Rejectable(req'))
            => /\ resp'.status = "error"
               /\ resp'.code = 400
               /\ selected_bg_index' = selected_bg_index
               /\ apply_blur' = apply_blur ]_vars

C4_Witness ==
    /\ req.op = "set_background"
    /\ req.ok
    /\ req.val = NUM_BACKGROUNDS
    /\ resp.code = 400
    /\ selected_bg_index = NUM_BACKGROUNDS - 1
    /\ apply_blur

\* C5: set_background(i) with 0 <= i < len(background_images), or i = -1,
\* answers success echoing i, and selected_bg_index then reads i.
C5_AcceptStores ==
    (req.op = "set_background" /\ req.ok /\ req.val >= -1 /\ req.val < Len(background_images))
        => /\ resp.status = "success"
           /\ resp.code = 200
           /\ resp.selected_index = req.val
           /\ selected_bg_index = req.val

C5_Witness ==
    /\ req.op = "set_background"
    /\ req.ok
    /\ req.val = NUM_BACKGROUNDS - 1
    /\ selected_bg_index = NUM_BACKGROUNDS - 1
    /\ index_pc = "reset_blur"

\* the captured frame, mirrored
Mirrored == [x \in 1..Len(captured) |-> captured[Len(captured) + 1 - x]]

\* pixel x of the mirrored frame where the condition holds, of background
\* image 2 at the frame's width elsewhere
WithBackground2(x) ==
    [ch \in 1..3 |->
        IF condition[x][ch]
        THEN Mirrored[x][ch]
        ELSE Resize(background_images[3], Len(captured))[x][ch]]

\* C6: from the defaults, a frame composited before any control call is
\* emitted as the mirrored captured frame; a frame composited after the one
\* call set_background(2) has background image 2 in its non-foreground pixels.
C6_EndToEnd ==
    pc = "suspended" =>
        /\ frameCtl = "none" =>
              /\ output_image = Mirrored
              /\ ret => chunk.body.of = Mirrored
        /\ frameCtl = "bg2" =>
              /\ background_images[3] # NoneImg
              /\ Len(output_image) = Len(captured)
              /\ \A x \in 1..Len(captured) : output_image[x] = WithBackground2(x)
              /\ ret => chunk.body.of = output_image

C6_Witness ==
    /\ pc = "suspended"
    /\ frameCtl = "bg2"
    /\ ctl = "bg2"
    /\ ret
    /\ Mixed(condition)

\* C7: a chunk is emitted only for a frame whose encoding reported success.
C7_NoChunkOnFailure == pc = "suspended" => ret

\* C8: once load_backgrounds has run, background_images has NUM_BACKGROUNDS
\* entries and slot i holds the decoded i.png or the placeholder for i, never
\* a null image.
C8_AllSlotsUsable ==
    Loaded =>
        /\ Len(background_images) = NUM_BACKGROUNDS
        /\ \A i \in Slots :
              /\ background_images[i] # NoneImg
              /\ background_images[i] \in {PngPixels(i), create_placeholder_background(i)}

\* C9: with a valid background selected and blur off, every output pixel is
\* the source pixel where the condition holds and the pixel of the selected
\* background, resized to the frame, where it does not; the output is as wide
\* as the frame.
C9_PolicyA ==
    (pc = "encode" /\ selected_bg_index >= 0 /\ ~apply_blur) =>
        /\ Len(output_image) = Len(image)
        /\ \A x \in 1..Len(image) : \A ch \in 1..3 :
              output_image[x][ch] =
                  IF condition[x][ch]
                  THEN image[x][ch]
                  ELSE Resize(background_images[selected_bg_index + 1], Len(image))[x][ch]

C9_Witness ==
    /\ pc = "encode"
    /\ selected_bg_index = 2
    /\ ~apply_blur
    /\ Mixed(condition)
    /\ output_image # image

\* C10: with no background selected and blur off, the output is the input
\* frame, whatever the condition, and the input frame is as it was passed in.
C10_PolicyC ==
    (pc = "encode" /\ selected_bg_index = -1 /\ ~apply_blur) =>
        /\ output_image = image
        /\ image = Mirrored

C10_Witness ==
    /\ pc = "encode"
    /\ selected_bg_index = -1
    /\ ~apply_blur
    /\ Mixed(condition)
    /\ output_image = Mirrored

====
